---- MODULE Spec2Model ----
(***************************************************************************)
(* Conway's Game of Life with per-cell ages (src/src/main.rs): the pure    *)
(* board functions, and the two threads of main (the simulation loop and   *)
(* the stdin reader) joined by an mpsc channel.                            *)
(*                                                                         *)
(* Values.  Cell::Dead is <<"Dead">>, Cell::Alive(n) is <<"Alive", n>>.    *)
(* Option<usize>: None is <<>>, Some(n) is <<n>>.  A Board is a function   *)
(* from 0 .. WIDTH*WIDTH-1 to cells.  An evaluation that can panic yields  *)
(* a record [panic, val]: Ok(v) is a normal return of v, Panic(d) is a     *)
(* panic (d only fills the field: nothing is returned).                    *)
(*                                                                         *)
(* Arithmetic.  Rust checks integer overflow in builds with                *)
(* overflow-checks on (the dev and test profiles) and wraps in builds with *)
(* it off (the release profile).  overflow_checks is the build the run     *)
(* uses; both are explored.  A wrapped usize/u64 is written as its signed  *)
(* representative: v < 0 stands for 2^64 + v.                              *)
(***************************************************************************)
EXTENDS Integers, Sequences, FiniteSets

VARIABLES
    overflow_checks,  \* the build: TRUE checks integer overflow (panics), FALSE wraps
    call,             \* pure-function harness: <<function name, arguments...>>, <<>> when unused
    ret,              \* pure-function harness: <<>> before the call, <<outcome>> after it
    active,           \* simulation loop: `active` (main.rs:33)
    frame,            \* simulation loop: `frame` (main.rs:34)
    ratio,            \* simulation loop: `ratio`, in hundredths (main.rs:35)
    board,            \* simulation loop: `board` (main.rs:36)
    sleep,            \* simulation loop: `sleep`, in milliseconds (main.rs:37)
    msg,              \* simulation loop: `msg`, the last try_recv result, <<>> before the first
    loop_pc,          \* simulation loop: "top", "recv", "sleep" or "panicked"
    chan,             \* the commands queued in the mpsc channel, oldest first
    main_pc,          \* main thread: "read", "returned" (sender dropped) or "exited"
    sent,             \* history: the commands passed to msg_sender.send, in order
    applied,          \* history: the commands the loop has matched, in order
    screen,           \* the last frame drawn: <<frame, ratio, sleep, board>>, <<>> before the first
    renders,          \* history: the number of frames drawn
    steps,            \* history: the number of get_updated_board results stored in board
    iter,             \* history: active, frame, board, renders, steps as the iteration began
    survived          \* history: per cell, the steps in a row it has been alive since born or seeded

harness_vars == <<call, ret>>
loop_vars == <<active, frame, ratio, board, sleep, msg, loop_pc>>
main_vars == <<main_pc>>
history_vars == <<sent, applied, screen, renders, steps, iter, survived>>
program_vars == <<loop_vars, chan, main_vars, history_vars>>
vars == <<overflow_checks, harness_vars, program_vars>>

\* The side of the board.  main.rs:24 sets WIDTH = 20; the model is
\* parametric in it and is checked for a small side.
WIDTH == 3

\* u8::MAX + 1, the number of ages Cell::Alive(u8) can hold (main.rs:10).
U8_MODULUS == 256

Ok(v) == [panic |-> FALSE, val |-> v]
Panic(d) == [panic |-> TRUE, val |-> d]

Dead == <<"Dead">>
Alive(n) == <<"Alive", n>>
IsAlive(cell) == cell[1] = "Alive"

None == <<>>
Some(n) == <<n>>

\* The indices of a Board: 0 .. WIDTH * WIDTH - 1 (main.rs:25).
Indices == 0 .. (WIDTH * WIDTH - 1)

\* u8 `a + b` (main.rs:155): panics on overflow in a checked build, wraps otherwise.
u8_add(a, b) ==
    IF a + b < U8_MODULUS THEN Ok(a + b)
    ELSE IF overflow_checks THEN Panic(0)
    ELSE Ok((a + b) % U8_MODULUS)

\* usize `a - b` (main.rs:211 ff.): panics on underflow in a checked build, wraps
\* otherwise (the wrapped value 2^64 + a - b is written a - b, a negative number).
usize_sub(a, b) ==
    IF a >= b THEN Ok(a - b)
    ELSE IF overflow_checks THEN Panic(0)
    ELSE Ok(a - b)

\* Option::Some of a checked difference, or the panic of the subtraction.
SomeOf(d) == IF d.panic THEN Panic(None) ELSE Ok(Some(d.val))

----------------------------------------------------------------------------
(* The transition rule *)

get_new_cell_state(cell, neighbour_count) ==
    IF IsAlive(cell)
    THEN IF neighbour_count > 1 /\ neighbour_count < 4
         THEN LET n == u8_add(cell[2], 1)
              IN  IF n.panic THEN Panic(Dead) ELSE Ok(Alive(n.val))
         ELSE Ok(Dead)
    ELSE IF neighbour_count = 3 THEN Ok(Alive(0)) ELSE Ok(Dead)

----------------------------------------------------------------------------
(* The eight direction functions *)

get_nw_no_row_guard(cell) ==
    IF cell % WIDTH = 0 THEN Ok(None) ELSE SomeOf(usize_sub(cell, WIDTH + 1))

get_nw(cell) ==
    IF cell % WIDTH = 0 \/ cell < WIDTH THEN Ok(None)
    ELSE SomeOf(usize_sub(cell, WIDTH + 1))

get_n(cell) ==
    IF cell < WIDTH THEN Ok(None) ELSE SomeOf(usize_sub(cell, WIDTH))

get_ne(cell) ==
    IF cell < WIDTH \/ cell % WIDTH = WIDTH - 1 THEN Ok(None)
    ELSE SomeOf(usize_sub(cell, WIDTH - 1))

get_w(cell) ==
    IF cell % WIDTH = 0 THEN Ok(None) ELSE SomeOf(usize_sub(cell, 1))

get_e_past_row_end(cell) == Ok(Some(cell + 1))

get_e(cell) ==
    IF cell % WIDTH = WIDTH - 1 THEN Ok(None) ELSE Ok(Some(cell + 1))

get_sw(cell) ==
    IF cell % WIDTH = 0 \/ cell >= WIDTH * (WIDTH - 1) THEN Ok(None)
    ELSE Ok(Some(cell + (WIDTH - 1)))

get_s(cell) ==
    IF cell >= WIDTH * (WIDTH - 1) THEN Ok(None) ELSE Ok(Some(cell + WIDTH))

get_se(cell) ==
    IF cell % WIDTH = WIDTH - 1 \/ cell >= WIDTH * (WIDTH - 1) THEN Ok(None)
    ELSE Ok(Some(cell + WIDTH + 1))

\* The direction functions by name, for the harness.
Directions == {"nw", "n", "ne", "w", "e", "sw", "s", "se"}

Direction(d, cell) ==
    CASE d = "nw" -> get_nw(cell)
      [] d = "n"  -> get_n(cell)
      [] d = "ne" -> get_ne(cell)
      [] d = "w"  -> get_w(cell)
      [] d = "e"  -> get_e(cell)
      [] d = "sw" -> get_sw(cell)
      [] d = "s"  -> get_s(cell)
      [] d = "se" -> get_se(cell)

----------------------------------------------------------------------------
(* The neighbour sampler and the generation engine *)

\* Vec<T> -> [T; n] by try_into().expect(..) (main.rs:97, 148, 197): the array
\* when the vector holds exactly n elements, a panic otherwise.  A Vec is a
\* sequence; an array is a function from 0 .. n-1.
try_into(vec, n) ==
    IF Len(vec) = n THEN Ok([i \in 0 .. (n - 1) |-> vec[i + 1]]) ELSE Panic(<<>>)

\* state[n] panics when n is out of bounds, in every build.
find_neighbour_state(address, state) ==
    IF address = None THEN Ok(Dead)
    ELSE IF address[1] \in DOMAIN state THEN Ok(state[address[1]])
    ELSE Panic(Dead)

\* The addresses in the order of the array literal of main.rs:184-193.
neighbour_addresses_w_before_e(cell) ==
    <<get_nw(cell), get_n(cell), get_ne(cell), get_w(cell),
      get_e(cell), get_sw(cell), get_s(cell), get_se(cell)>>

neighbour_addresses(cell) ==
    <<get_nw(cell), get_n(cell), get_ne(cell), get_e(cell),
      get_w(cell), get_sw(cell), get_s(cell), get_se(cell)>>

get_neighbours(cell, state) ==
    LET neighbours == neighbour_addresses(cell)
        found == [k \in 1 .. 8 |->
                    IF neighbours[k].panic THEN Panic(Dead)
                    ELSE find_neighbour_state(neighbours[k].val, state)]
    IN  IF \E k \in 1 .. 8 : found[k].panic THEN Panic(<<>>)
        ELSE try_into([k \in 1 .. 8 |-> found[k].val], 8)

\* The loop of count_neighbours from element k on, with the count so far.
RECURSIVE count_from(_, _, _)
count_from(neighbours, k, count) ==
    IF k \notin DOMAIN neighbours THEN count
    ELSE count_from(neighbours, k + 1,
                    IF IsAlive(neighbours[k]) THEN count + 1 ELSE count)

count_neighbours(neighbours) == count_from(neighbours, 0, 0)

\* The loop of get_updated_board from index i on: new_state is the vector
\* built so far, source the board the neighbours are read from.
RECURSIVE updated_from(_, _, _)
updated_from(state, i, new_state) ==
    IF i >= Cardinality(DOMAIN state) THEN Ok(new_state)
    ELSE LET cell == state[i]
             neighbours == get_neighbours(i, state)
         IN  IF neighbours.panic THEN Panic(<<>>)
             ELSE LET count == count_neighbours(neighbours.val)
                      new_cell == get_new_cell_state(cell, count)
                  IN  IF new_cell.panic THEN Panic(<<>>)
                      ELSE updated_from(state, i + 1, Append(new_state, new_cell.val))

get_updated_board(state) ==
    LET new_state == updated_from(state, 0, <<>>)
    IN  IF new_state.panic THEN Panic(<<>>)
        ELSE try_into(new_state.val, WIDTH * WIDTH)

\* The loop of generate_board from draw i on.  draws[i] is the value of the
\* i-th rng.gen::<f32>(), seed_ratio the `ratio` argument; both in hundredths.
RECURSIVE generated_from_at_least(_, _, _, _)
generated_from_at_least(seed_ratio, draws, i, new_board) ==
    IF i >= WIDTH * WIDTH THEN new_board
    ELSE generated_from_at_least(seed_ratio, draws, i + 1,
                                 Append(new_board,
                                        IF draws[i] >= seed_ratio THEN Alive(0) ELSE Dead))

RECURSIVE generated_from(_, _, _, _)
generated_from(seed_ratio, draws, i, new_board) ==
    IF i >= WIDTH * WIDTH THEN new_board
    ELSE generated_from(seed_ratio, draws, i + 1,
                        Append(new_board,
                               IF draws[i] > seed_ratio THEN Alive(0) ELSE Dead))

generate_board(seed_ratio, draws) ==
    try_into(generated_from(seed_ratio, draws, 0, <<>>), WIDTH * WIDTH)

----------------------------------------------------------------------------
(* Pure-function harness: the transition rule *)

\* Every value of the Cell type (main.rs:9-12).
Cells == {Dead} \cup {Alive(n) : n \in 0 .. (U8_MODULUS - 1)}

\* The neighbour counts count_neighbours can return for 8 neighbours.
Counts == 0 .. 8

\* The program is not running while a function is called on its own.
ProgramUnused ==
    /\ active = FALSE /\ frame = 0 /\ ratio = 0 /\ board = <<>> /\ sleep = 0
    /\ msg = <<>> /\ loop_pc = "unused" /\ chan = <<>>
    /\ main_pc = "unused"
    /\ sent = <<>> /\ applied = <<>> /\ screen = <<>> /\ renders = 0 /\ steps = 0
    /\ iter = <<>> /\ survived = <<>>

InitCell ==
    /\ ProgramUnused
    /\ overflow_checks \in BOOLEAN
    /\ call \in {<<"get_new_cell_state", c, k>> : c \in Cells, k \in Counts}
    /\ ret = <<>>

CallGetNewCellState ==
    /\ call # <<>> /\ call[1] = "get_new_cell_state"
    /\ ret = <<>>
    /\ ret' = <<get_new_cell_state(call[2], call[3])>>
    /\ UNCHANGED <<overflow_checks, call, program_vars>>

NextCell == CallGetNewCellState

SpecCell == InitCell /\ [][NextCell]_vars

----------------------------------------------------------------------------
(* Pure-function harness: the direction functions *)

InitDir ==
    /\ ProgramUnused
    /\ overflow_checks \in BOOLEAN
    /\ call \in {<<d, i>> : d \in Directions, i \in Indices}
    /\ ret = <<>>

CallDirection ==
    /\ call # <<>> /\ call[1] \in Directions
    /\ ret = <<>>
    /\ ret' = <<Direction(call[1], call[2])>>
    /\ UNCHANGED <<overflow_checks, call, program_vars>>

NextDir == CallDirection

SpecDir == InitDir /\ [][NextDir]_vars

----------------------------------------------------------------------------
(* Pure-function harness: the sampler, the step and the seeding *)

Row(i) == i \div WIDTH
Col(i) == i % WIDTH

\* The cells within one row and one column of c, c included.
Window(c) ==
    {j \in Indices : /\ Row(j) - Row(c) \in {-1, 0, 1}
                     /\ Col(j) - Col(c) \in {-1, 0, 1}}

\* Ages of the input boards: the live cell at index j has age (base + j) mod 256,
\* so that cells differ in age and, for the high base, one holds u8::MAX.
AgeBases == {0, U8_MODULUS - 1 - WIDTH - 1}

InputBoard(live, base) ==
    [j \in Indices |-> IF j \in live THEN Alive((base + j) % U8_MODULUS) ELSE Dead]

\* The input boards: every live/dead pattern of every 3x3 window (clipped at
\* the border), nothing alive outside it.  For WIDTH = 3 these are all patterns.
InitBoard ==
    /\ ProgramUnused
    /\ overflow_checks \in BOOLEAN
    /\ \E c \in Indices : \E live \in SUBSET Window(c), base \in AgeBases :
          \/ call = <<"get_updated_board", InputBoard(live, base)>>
          \/ call = <<"get_neighbours", c, InputBoard(live, base)>>
    /\ ret = <<>>

CallGetNeighbours ==
    /\ call # <<>> /\ call[1] = "get_neighbours"
    /\ ret = <<>>
    /\ ret' = <<get_neighbours(call[2], call[3])>>
    /\ UNCHANGED <<overflow_checks, call, program_vars>>

CallGetUpdatedBoard ==
    /\ call # <<>> /\ call[1] = "get_updated_board"
    /\ ret = <<>>
    /\ ret' = <<get_updated_board(call[2])>>
    /\ UNCHANGED <<overflow_checks, call, program_vars>>

NextBoard == CallGetNeighbours \/ CallGetUpdatedBoard

SpecBoard == InitBoard /\ [][NextBoard]_vars

\* Thresholds and draws, in hundredths.  rng.gen::<f32>() is in [0, 1); the
\* ratio is any value, also below 0 and from 1 on.
RatioSamples == {-5, 0, 70, 99, 100, 105}
DrawSamples == {0, 99}

\* The draw sequences: any sample in a window, the lowest draw outside it.
InputDraw(c, d) == [j \in Indices |-> IF j \in Window(c) THEN d[j] ELSE 0]

InitSeed ==
    /\ ProgramUnused
    /\ overflow_checks \in BOOLEAN
    /\ \E c \in Indices : \E d \in [Window(c) -> DrawSamples], r \in RatioSamples :
          call = <<"generate_board", r, InputDraw(c, d)>>
    /\ ret = <<>>

CallGenerateBoard ==
    /\ call # <<>> /\ call[1] = "generate_board"
    /\ ret = <<>>
    /\ ret' = <<generate_board(call[2], call[3])>>
    /\ UNCHANGED <<overflow_checks, call, program_vars>>

NextSeed == CallGenerateBoard

SpecSeed == InitSeed /\ [][NextSeed]_vars

----------------------------------------------------------------------------
(* The program: main (main.rs:29-84) *)

\* Bounds of the model: the commands the main thread sends, the frames the loop
\* draws, and the cells a seeding may bring to life (the first SeedSpan).
MaxSent == 2
MaxFrame == 3
SeedSpan == 4

\* i32::MAX, the largest value of `frame` (main.rs:34: an integer literal that
\* is only printed is an i32).
I32_MAX == 2147483647

\* The initial values and the steps of main.rs:35, 37, 56-59; the ratio in
\* hundredths (0.7 is 70, 0.05 is 5: f32 rounding is not modelled).
INITIAL_RATIO == 70
RATIO_STEP == 5
INITIAL_SLEEP == 700
SLEEP_STEP == 50

\* i32 `a + 1`: panics on overflow in a checked build, wraps to i32::MIN otherwise.
i32_increment(a) ==
    IF a < I32_MAX THEN Ok(a + 1)
    ELSE IF overflow_checks THEN Panic(0)
    ELSE Ok(0 - I32_MAX - 1)

\* u64 `a - b` and `a + b` on signed representatives (v < 0 stands for 2^64 + v).
u64_sub(a, b) ==
    IF a >= 0 /\ a < b
    THEN IF overflow_checks THEN Panic(0) ELSE Ok(a - b)
    ELSE Ok(a - b)

u64_add(a, b) ==
    IF a < 0 /\ a + b >= 0
    THEN IF overflow_checks THEN Panic(0) ELSE Ok(a + b)
    ELSE Ok(a + b)

\* A line of input is the sequence of its characters.  str::trim removes the
\* leading and the trailing white space.
WhiteSpace == {" ", "\t", "\r", "\n"}

RECURSIVE trim_start(_)
trim_start(line) ==
    IF line # <<>> /\ Head(line) \in WhiteSpace THEN trim_start(Tail(line)) ELSE line

RECURSIVE trim_end(_)
trim_end(line) ==
    IF line # <<>> /\ line[Len(line)] \in WhiteSpace
    THEN trim_end(SubSeq(line, 1, Len(line) - 1))
    ELSE line

trim(line) == trim_end(trim_start(line))

\* The lines read: each key with its newline, a key inside white space, keys
\* that are no command, an empty line, and the empty read at end of input.
InputLines ==
    { <<"q", "\n">>, <<"p", "\n">>, <<"r", "\n">>, <<"m", "\n">>, <<"l", "\n">>,
      <<"z", "\n">>, <<"x", "\n">>, <<" ", "p", "\r", "\n">>, <<"P", "\n">>,
      <<"p", "p", "\n">>, <<"\n">>, <<>> }

command_of_z_faster(trimmed) ==
    CASE trimmed = <<"p">> -> <<"Pause">>
      [] trimmed = <<"r">> -> <<"Redraw">>
      [] trimmed = <<"m">> -> <<"HigherRatio">>
      [] trimmed = <<"l">> -> <<"LowerRatio">>
      [] trimmed = <<"z">> -> <<"Faster">>
      [] trimmed = <<"x">> -> <<"Slower">>
      [] OTHER -> <<>>

\* The command the match of main.rs:70-79 sends for a trimmed line: <<c>>, or
\* <<>> for "q" and for every other line.
command_of(trimmed) ==
    CASE trimmed = <<"p">> -> <<"Pause">>
      [] trimmed = <<"r">> -> <<"Redraw">>
      [] trimmed = <<"m">> -> <<"HigherRatio">>
      [] trimmed = <<"l">> -> <<"LowerRatio">>
      [] trimmed = <<"z">> -> <<"Slower">>
      [] trimmed = <<"x">> -> <<"Faster">>
      [] OTHER -> <<>>

\* The draws of a seeding: a high draw for the cells of `high`, the lowest draw
\* for the others.
SeedCells == {j \in Indices : j < SeedSpan}
SeedDraws(high) == [j \in Indices |-> IF j \in high THEN 99 ELSE 0]

\* The state after `let mut sleep = 700;` (main.rs:33-37), nothing read yet.
Init ==
    /\ overflow_checks \in BOOLEAN
    /\ call = <<>> /\ ret = <<>>
    /\ active = TRUE
    /\ frame = 0
    /\ ratio = INITIAL_RATIO
    /\ \E high \in SUBSET SeedCells :
          board = generate_board(INITIAL_RATIO, SeedDraws(high)).val
    /\ sleep = INITIAL_SLEEP
    /\ msg = <<>>
    /\ loop_pc = "top"
    /\ chan = <<>>
    /\ main_pc = "read"
    /\ sent = <<>> /\ applied = <<>>
    /\ screen = <<>> /\ renders = 0 /\ steps = 0
    /\ iter = [active |-> TRUE, frame |-> 0, board |-> board,
               renders |-> 0, steps |-> 0]
    /\ survived = [i \in Indices |-> 0]

\* The loop thread runs until it panics or the process exits.
LoopRuns(pc) == loop_pc = pc /\ main_pc # "exited"

\* The thread unwinds: its locals, msg_receiver among them, are dropped, and
\* the queued commands with the receiver.
Panicked ==
    /\ loop_pc' = "panicked"
    /\ chan' = <<>>

RunBlock_draws_after_step(is_active, max_frame) ==
    /\ LoopRuns("top")
    /\ UNCHANGED <<overflow_checks, harness_vars, main_vars, sent, applied, iter>>
    /\ UNCHANGED <<active, ratio, sleep, msg>>
    /\ IF is_active
       THEN /\ frame < max_frame
            /\ LET next_frame == i32_increment(frame)
                   new_board == get_updated_board(board)
               IN  IF next_frame.panic
                   THEN /\ Panicked
                        /\ UNCHANGED <<frame, board, screen, renders, steps, survived>>
                   ELSE /\ frame' = next_frame.val
                        /\ screen' = <<next_frame.val, ratio, sleep,
                                       IF new_board.panic THEN board ELSE new_board.val>>
                        /\ renders' = renders + 1
                        /\ IF new_board.panic
                           THEN /\ Panicked
                                /\ UNCHANGED <<board, steps, survived>>
                           ELSE /\ board' = new_board.val
                                /\ steps' = steps + 1
                                /\ survived' =
                                      [i \in Indices |->
                                          IF IsAlive(board[i]) /\ IsAlive(board'[i])
                                          THEN survived[i] + 1 ELSE 0]
                                /\ loop_pc' = "recv"
                                /\ UNCHANGED chan
       ELSE /\ loop_pc' = "recv"
            /\ UNCHANGED <<frame, board, chan, screen, renders, steps, survived>>

\* main.rs:40-50: the `if active` block of an iteration, run when is_active;
\* the model draws at most max_frame frames.
RunBlock(is_active, max_frame) ==
    /\ LoopRuns("top")
    /\ UNCHANGED <<overflow_checks, harness_vars, main_vars, sent, applied, iter>>
    /\ UNCHANGED <<active, ratio, sleep, msg>>
    /\ IF is_active
       THEN /\ frame < max_frame
            /\ LET next_frame == i32_increment(frame)
                   new_board == get_updated_board(board)
               IN  IF next_frame.panic
                   THEN /\ Panicked
                        /\ UNCHANGED <<frame, board, screen, renders, steps, survived>>
                   ELSE /\ frame' = next_frame.val
                        /\ screen' = <<next_frame.val, ratio, sleep, board>>
                        /\ renders' = renders + 1
                        /\ IF new_board.panic
                           THEN /\ Panicked
                                /\ UNCHANGED <<board, steps, survived>>
                           ELSE /\ board' = new_board.val
                                /\ steps' = steps + 1
                                /\ survived' =
                                      [i \in Indices |->
                                          IF IsAlive(board[i]) /\ IsAlive(board'[i])
                                          THEN survived[i] + 1 ELSE 0]
                                /\ loop_pc' = "recv"
                                /\ UNCHANGED chan
       ELSE /\ loop_pc' = "recv"
            /\ UNCHANGED <<frame, board, chan, screen, renders, steps, survived>>

TickIgnoringActive == RunBlock(TRUE, MaxFrame)

Tick == RunBlock(active, MaxFrame)

try_recv_newest ==
    IF chan # <<>> THEN <<"Ok", chan[Len(chan)]>>
    ELSE IF main_pc = "returned" THEN <<"Err", "Disconnected">>
    ELSE <<"Err", "Empty">>

\* Receiver::try_recv: the oldest queued command; Empty when there is none and
\* the sender lives, Disconnected when there is none and the sender is dropped.
try_recv ==
    IF chan # <<>> THEN <<"Ok", Head(chan)>>
    ELSE IF main_pc = "returned" THEN <<"Err", "Disconnected">>
    ELSE <<"Err", "Empty">>

after_try_recv_peeked == chan

\* The queue after try_recv.
after_try_recv == IF chan # <<>> THEN Tail(chan) ELSE chan

\* main.rs:60, `_ => ()`: the arm of Err(Empty) and Err(Disconnected).
no_command_unwrapped ==
    /\ Panicked
    /\ UNCHANGED <<active, ratio, board, sleep>>

no_command ==
    /\ loop_pc' = "sleep" /\ chan' = after_try_recv
    /\ UNCHANGED <<active, ratio, board, sleep>>

\* main.rs:52-61: the poll of the channel and the match on its result.
Poll ==
    /\ LoopRuns("recv")
    /\ UNCHANGED <<overflow_checks, harness_vars, main_vars, sent>>
    /\ UNCHANGED <<frame, screen, renders, steps, iter>>
    /\ msg' = try_recv
    /\ survived' = IF msg' = <<"Ok", "Redraw">> THEN [i \in Indices |-> 0]
                    ELSE survived
    /\ applied' = IF msg'[1] = "Ok" THEN Append(applied, msg'[2]) ELSE applied
    /\ CASE msg' = <<"Ok", "Pause">> ->
              /\ active' = ~active
              /\ loop_pc' = "sleep" /\ chan' = after_try_recv
              /\ UNCHANGED <<ratio, board, sleep>>
         [] msg' = <<"Ok", "Redraw">> ->
              /\ \E high \in SUBSET SeedCells :
                    board' = generate_board(ratio, SeedDraws(high)).val
              /\ loop_pc' = "sleep" /\ chan' = after_try_recv
              /\ UNCHANGED <<active, ratio, sleep>>
         [] msg' = <<"Ok", "HigherRatio">> ->
              /\ ratio' = ratio + RATIO_STEP
              /\ loop_pc' = "sleep" /\ chan' = after_try_recv
              /\ UNCHANGED <<active, board, sleep>>
         [] msg' = <<"Ok", "LowerRatio">> ->
              /\ ratio' = ratio - RATIO_STEP
              /\ loop_pc' = "sleep" /\ chan' = after_try_recv
              /\ UNCHANGED <<active, board, sleep>>
         [] msg' = <<"Ok", "Faster">> ->
              LET faster == u64_sub(sleep, SLEEP_STEP)
              IN  /\ IF faster.panic
                     THEN Panicked /\ UNCHANGED sleep
                     ELSE /\ sleep' = faster.val
                          /\ loop_pc' = "sleep" /\ chan' = after_try_recv
                  /\ UNCHANGED <<active, ratio, board>>
         [] msg' = <<"Ok", "Slower">> ->
              LET slower == u64_add(sleep, SLEEP_STEP)
              IN  /\ IF slower.panic
                     THEN Panicked /\ UNCHANGED sleep
                     ELSE /\ sleep' = slower.val
                          /\ loop_pc' = "sleep" /\ chan' = after_try_recv
                  /\ UNCHANGED <<active, ratio, board>>
         [] OTHER -> no_command

\* main.rs:62: thread::sleep(Duration::from_millis(sleep)) returns, and the
\* next iteration begins.
Sleep ==
    /\ LoopRuns("sleep")
    /\ loop_pc' = "top"
    /\ iter' = [active |-> active, frame |-> frame, board |-> board,
                renders |-> renders, steps |-> steps]
    /\ UNCHANGED <<overflow_checks, harness_vars, main_vars, chan>>
    /\ UNCHANGED <<sent, applied, screen, renders, steps, survived>>
    /\ UNCHANGED <<active, frame, ratio, board, sleep, msg>>

\* Sender::send: the command is queued; when the receiver is dropped it is
\* returned in an Err, which main discards (`let _ =`).
send(command) ==
    /\ sent' = Append(sent, command)
    /\ chan' = IF loop_pc = "panicked" THEN chan ELSE Append(chan, command)

ReadLineWithin_shared_flag(line, max) ==
    /\ main_pc = "read"
    /\ command_of(trim(line)) # <<>> => Len(sent) < max
    /\ UNCHANGED <<overflow_checks, frame, ratio, board, sleep, msg, loop_pc>>
    /\ UNCHANGED <<applied, screen, renders, steps, iter, survived>>
    /\ LET trimmed == trim(line)
       IN  IF trimmed = <<"q">>
           THEN main_pc' = "returned" /\ UNCHANGED <<chan, sent, active>>
           ELSE /\ main_pc' = "read"
                /\ active' = IF trimmed = <<"p">> THEN ~active ELSE active
                /\ IF command_of(trimmed) # <<>>
                   THEN send(command_of(trimmed)[1])
                   ELSE UNCHANGED <<chan, sent>>

\* main.rs:67-80: one line is read (Ok) and matched; at most `max` commands are
\* sent in all.  The harness variables are left to the action that reads.
ReadLineWithin(line, max) ==
    /\ main_pc = "read"
    /\ command_of(trim(line)) # <<>> => Len(sent) < max
    /\ UNCHANGED <<overflow_checks, loop_vars>>
    /\ UNCHANGED <<applied, screen, renders, steps, iter, survived>>
    /\ LET trimmed == trim(line)
       IN  IF trimmed = <<"q">>
           THEN main_pc' = "returned" /\ UNCHANGED <<chan, sent>>
           ELSE /\ main_pc' = "read"
                /\ IF command_of(trimmed) # <<>>
                   THEN send(command_of(trimmed)[1])
                   ELSE UNCHANGED <<chan, sent>>

ReadLine ==
    \E line \in InputLines : ReadLineWithin(line, MaxSent) /\ UNCHANGED harness_vars

\* main.rs:81: read_line fails, the error is printed, and the loop goes on.
ReadLineError ==
    /\ main_pc = "read"
    /\ UNCHANGED vars

\* main returns after `break`: the process exits and the loop thread with it.
ProcessExit ==
    /\ main_pc = "returned"
    /\ main_pc' = "exited"
    /\ UNCHANGED <<overflow_checks, harness_vars, loop_vars, chan, history_vars>>

Next == Tick \/ Poll \/ Sleep \/ ReadLine \/ ReadLineError \/ ProcessExit

Spec == Init /\ [][Next]_vars

\* ENABLED <<Tick>>_vars written out: the loop is at the top of an iteration
\* and, when running, the model has a frame left to draw.
TickEnabled == LoopRuns("top") /\ (active => frame < MaxFrame)

\* WF_vars(Tick), with its ENABLED written out.
TickFair == []<>(~TickEnabled) \/ []<><<Tick>>_vars

\* The program under fair scheduling of the loop thread: a step of the loop that
\* can be taken is taken in the end.  Nothing is assumed of the main thread,
\* which waits for input, nor of the time the process takes to exit.
SpecLive == Spec /\ TickFair /\ WF_vars(Poll) /\ WF_vars(Sleep)

\* The same program when every line read is "x" and the first seeding brings
\* no cell to life: at most MaxFaster commands and frames.
MaxFaster == 16

InitFaster == Init /\ \A i \in Indices : board[i] = Dead

TickFaster == RunBlock(active, MaxFaster)

ReadLineFaster == ReadLineWithin(<<"x", "\n">>, MaxFaster) /\ UNCHANGED harness_vars

NextFaster == TickFaster \/ Poll \/ Sleep \/ ReadLineFaster

SpecFaster == InitFaster /\ [][NextFaster]_vars

\* The same program when no line is read and the first seeding brings to life
\* the three cells 0, 1 and WIDTH, which one step turns into the 2x2 block 0,
\* 1, WIDTH, WIDTH + 1, a still life: at most MaxAges frames.
MaxAges == 257

InitAges == Init /\ \A i \in Indices : IsAlive(board[i]) <=> i \in {0, 1, WIDTH}

TickAges == RunBlock(active, MaxAges)

NextAges == TickAges \/ Poll \/ Sleep

SpecAges == InitAges /\ [][NextAges]_vars

\* The same program with the line of each read_line on record: `call` is
\* <<"read_line", line>> for the last line read.  The first seeding brings no
\* cell to life.
ReadLineInput ==
    \E line \in InputLines :
        /\ ReadLineWithin(line, MaxSent)
        /\ call' = <<"read_line", line>>
        /\ UNCHANGED ret

NextInput == Tick \/ Poll \/ Sleep \/ ReadLineInput \/ ReadLineError \/ ProcessExit

SpecInput == InitFaster /\ [][NextInput]_vars

----------------------------------------------------------------------------
(* The transition rule: claim C1 *)

\* The cell the documented rule gives: survival at 2 or 3 with the age one
\* higher, death otherwise, birth at exactly 3.
RuleCell(cell, k) ==
    IF IsAlive(cell)
    THEN IF k \in {2, 3} THEN Alive(cell[2] + 1) ELSE Dead
    ELSE IF k = 3 THEN Alive(0) ELSE Dead

\* C1: for every cell the type can hold (Dead, Alive(0) .. Alive(255)) and every
\* neighbour count 0..8, get_new_cell_state returns without failing, and returns
\* the cell of the documented rule (Alive(age + 1) on survival).
C1_TotalRule ==
    (ret # <<>> /\ call[1] = "get_new_cell_state")
        => /\ ~ret[1].panic
           /\ ret[1].val = RuleCell(call[2], call[3])

\* The part of C1 the code keeps: the rule for every age below u8::MAX.
C1_RuleBelowMax ==
    (ret # <<>> /\ call[1] = "get_new_cell_state"
        /\ (IsAlive(call[2]) => call[2][2] < U8_MODULUS - 1))
        => /\ ~ret[1].panic
           /\ ret[1].val = RuleCell(call[2], call[3])

----------------------------------------------------------------------------
(* The direction functions: claim C3 *)

\* The documented boundary condition of each direction (S = WIDTH).
DocNone(d, i) ==
    CASE d = "nw" -> i % WIDTH = 0 \/ i < WIDTH
      [] d = "n"  -> i < WIDTH
      [] d = "ne" -> i < WIDTH \/ i % WIDTH = WIDTH - 1
      [] d = "w"  -> i % WIDTH = 0
      [] d = "e"  -> i % WIDTH = WIDTH - 1
      [] d = "sw" -> i % WIDTH = 0 \/ i >= WIDTH * (WIDTH - 1)
      [] d = "s"  -> i >= WIDTH * (WIDTH - 1)
      [] d = "se" -> i % WIDTH = WIDTH - 1 \/ i >= WIDTH * (WIDTH - 1)

\* The documented offset of each direction.
DocOffset(d) ==
    CASE d = "nw" -> 0 - (WIDTH + 1)
      [] d = "n"  -> 0 - WIDTH
      [] d = "ne" -> 0 - (WIDTH - 1)
      [] d = "w"  -> 0 - 1
      [] d = "e"  -> 1
      [] d = "sw" -> WIDTH - 1
      [] d = "s"  -> WIDTH
      [] d = "se" -> WIDTH + 1

\* C3: for every index in range and each direction the evaluation does not
\* underflow or fail; the result is None exactly under the documented boundary
\* condition and otherwise Some(i + offset), which lies in range.
C3_Directions ==
    (ret # <<>> /\ call[1] \in Directions)
        => LET d == call[1]
               i == call[2]
           IN  /\ ~ret[1].panic
               /\ (ret[1].val = None) <=> DocNone(d, i)
               /\ ~DocNone(d, i) =>
                     /\ ret[1].val = Some(i + DocOffset(d))
                     /\ i + DocOffset(d) \in Indices

\* A north-west neighbour was resolved for a cell off the top row and left column.
C3_Witness ==
    /\ ret # <<>> /\ call[1] = "nw"
    /\ ret[1] = Ok(Some(call[2] - (WIDTH + 1)))

----------------------------------------------------------------------------
(* The neighbour sampler: claim C4 *)

\* The documented order of the sampled neighbours.
DocOrder == <<"nw", "n", "ne", "e", "w", "sw", "s", "se">>

\* The cell the sampler is documented to give for direction d of cell i.
DocSample(d, i, grid) ==
    IF DocNone(d, i) THEN Dead ELSE grid[i + DocOffset(d)]

\* C4: for every index in range and every grid, get_neighbours returns without
\* failing exactly 8 cells, in the order NW, N, NE, E, W, SW, S, SE: the grid
\* cell at the resolved index, or Dead where the direction resolves to None.
C4_Neighbours ==
    (ret # <<>> /\ call[1] = "get_neighbours")
        => LET i == call[2]
               grid == call[3]
           IN  /\ ~ret[1].panic
               /\ DOMAIN ret[1].val = 0 .. 7
               /\ \A k \in 0 .. 7 :
                     LET address == Direction(DocOrder[k + 1], i).val
                     IN  /\ ret[1].val[k] = IF address = None THEN Dead
                                            ELSE grid[address[1]]
                         /\ ret[1].val[k] = DocSample(DocOrder[k + 1], i, grid)

\* The sampler ran on the centre of a full window: the east and the west
\* neighbour are both on the grid, alive, and differ.
C4_Witness ==
    /\ ret # <<>> /\ call[1] = "get_neighbours"
    /\ ~ret[1].panic
    /\ IsAlive(ret[1].val[3]) /\ IsAlive(ret[1].val[4])
    /\ ret[1].val[3] # ret[1].val[4]
    /\ ret[1].val[0] = Dead

----------------------------------------------------------------------------
(* The step: claims C2 and C5 *)

\* The number of Alive cells among 8 sampled neighbours.
AliveAmong(neighbours) == Cardinality({k \in 0 .. 7 : IsAlive(neighbours[k])})

\* C2: for every grid, get_updated_board returns a grid of the same length in
\* which every cell i is get_new_cell_state of the old cell i and of the number
\* of Alive cells among the neighbours of i sampled in the old grid.
C2_StepPointwise ==
    (ret # <<>> /\ call[1] = "get_updated_board")
        => LET g == call[2]
           IN  /\ ~ret[1].panic
               /\ DOMAIN ret[1].val = DOMAIN g
               /\ \A i \in DOMAIN g :
                     LET new_cell == get_new_cell_state(
                                         g[i], AliveAmong(get_neighbours(i, g).val))
                     IN  ~new_cell.panic /\ ret[1].val[i] = new_cell.val

\* What the step keeps of C2: it fails exactly when the rule fails for some
\* cell, and is the pointwise rule on the old grid otherwise.
C2_StepPointwiseOrFails ==
    (ret # <<>> /\ call[1] = "get_updated_board")
        => LET g == call[2]
               new_cell(i) == get_new_cell_state(
                                  g[i], AliveAmong(get_neighbours(i, g).val))
           IN  IF \E i \in DOMAIN g : new_cell(i).panic
               THEN ret[1].panic
               ELSE /\ ~ret[1].panic
                    /\ DOMAIN ret[1].val = DOMAIN g
                    /\ \A i \in DOMAIN g : ret[1].val[i] = new_cell(i).val

\* The live cells of a grid: the ages projected away.
LiveSet(grid) == {i \in DOMAIN grid : IsAlive(grid[i])}

\* One generation of Conway's Life on the WIDTH x WIDTH grid whose outside is
\* dead, on sets of live cells, by rows and columns.
LifeNeighbours(i) == Window(i) \ {i}

LifeStep(live) ==
    {i \in Indices :
        LET k == Cardinality(LifeNeighbours(i) \cap live)
        IN  IF i \in live THEN k \in {2, 3} ELSE k = 3}

\* C5: for every grid, get_updated_board returns a grid whose live/dead pattern
\* is the Life step of the live/dead pattern of the input, whatever the ages.
C5_RefinesLife ==
    (ret # <<>> /\ call[1] = "get_updated_board")
        => /\ ~ret[1].panic
           /\ LiveSet(ret[1].val) = LifeStep(LiveSet(call[2]))

\* What the step keeps of C5: whenever it returns, the pattern is the Life step.
C5_RefinesLifeWhenReturns ==
    (ret # <<>> /\ call[1] = "get_updated_board" /\ ~ret[1].panic)
        => LiveSet(ret[1].val) = LifeStep(LiveSet(call[2]))

----------------------------------------------------------------------------
(* The seeding: claim C6 *)

\* C6: for every ratio, generate_board returns exactly WIDTH * WIDTH cells, each
\* Alive(0) exactly when its draw is strictly greater than the ratio and Dead
\* otherwise; a ratio of 1 or more gives no live cell, a ratio below 0 only
\* live cells, and for the same draws a higher ratio gives no more live cells.
C6_Seed ==
    (ret # <<>> /\ call[1] = "generate_board")
        => LET seed_ratio == call[2]
               draws == call[3]
           IN  /\ ~ret[1].panic
               /\ DOMAIN ret[1].val = Indices
               /\ Cardinality(DOMAIN ret[1].val) = WIDTH * WIDTH
               /\ \A i \in Indices :
                     /\ ret[1].val[i] \in {Alive(0), Dead}
                     /\ (ret[1].val[i] = Alive(0)) <=> (draws[i] > seed_ratio)
               /\ seed_ratio >= 100 => LiveSet(ret[1].val) = {}
               /\ seed_ratio < 0 => LiveSet(ret[1].val) = Indices
               /\ \A higher \in RatioSamples :
                     higher >= seed_ratio =>
                        LiveSet(generate_board(higher, draws).val)
                            \subseteq LiveSet(ret[1].val)

\* A board was seeded with a draw above and a draw equal to the ratio: the
\* first cell is alive, the second is dead.
C6_Witness ==
    /\ ret # <<>> /\ call[1] = "generate_board"
    /\ \E i, j \in Indices :
          /\ call[3][i] > call[2] /\ call[3][j] = call[2]
          /\ ret[1].val[i] = Alive(0)
          /\ ret[1].val[j] = Dead

----------------------------------------------------------------------------
(* The paused loop: claim C7 *)

\* The loop is inside an iteration (past the `if active` block) that began paused.
InPausedIteration == loop_pc \in {"recv", "sleep"} /\ ~iter.active

\* A freshly seeded board: every cell is Alive(0) or Dead.
IsSeed(b) == \A i \in Indices : b[i] \in {Alive(0), Dead}

\* C7 as claimed: in an iteration that begins paused nothing is drawn, no step
\* is applied, and the frame counter and the grid are at its end what they
\* were at its start.
C7_PausedFreezesGridAndFrame ==
    InPausedIteration
        => /\ renders = iter.renders
           /\ steps = iter.steps
           /\ frame = iter.frame
           /\ board = iter.board

\* C7: in an iteration that begins paused nothing is drawn, no step is applied
\* and the frame counter does not change; the grid does not change either,
\* unless the command step of the iteration consumes a Redraw, which replaces
\* it by a freshly seeded grid.
C7_PausedFreezesUnlessRedraw ==
    InPausedIteration
        => /\ renders = iter.renders
           /\ steps = iter.steps
           /\ frame = iter.frame
           /\ (loop_pc = "recv" \/ msg # <<"Ok", "Redraw">>) => board = iter.board
           /\ board # iter.board => IsSeed(board)

\* A paused iteration reached its sleep after frames were drawn, with live
\* cells on the grid and another command than Redraw consumed.
C7_Witness ==
    /\ InPausedIteration /\ loop_pc = "sleep"
    /\ frame > 0
    /\ \E i \in Indices : IsAlive(board[i])
    /\ msg[1] = "Ok" /\ msg # <<"Ok", "Redraw">>

----------------------------------------------------------------------------
(* The command channel: claims C8, C9, C10 *)

\* The first n elements of a sequence.
Prefix(seq, n) == SubSeq(seq, 1, n)

\* C8: the commands are applied in the order sent: what the loop has applied
\* is a prefix of what was sent, and what is queued is the rest, in order (no
\* command is reordered, merged or skipped); a step applies at most one command,
\* the oldest one queued, and only in the poll of an iteration, which leads to
\* the sleep of that iteration, so that k queued commands take k iterations.
C8_Fifo ==
    /\ [](/\ Len(applied) <= Len(sent)
          /\ applied = Prefix(sent, Len(applied))
          /\ loop_pc # "panicked"
                => chan = SubSeq(sent, Len(applied) + 1, Len(sent)))
    /\ [][/\ applied' # applied
             => /\ loop_pc = "recv" /\ loop_pc' \in {"sleep", "panicked"}
                /\ chan # <<>>
                /\ applied' = Append(applied, Head(chan))
          /\ (loop_pc = "recv" /\ loop_pc' = "sleep" /\ chan # <<>>)
                => chan' = Tail(chan)]_vars

\* Two different commands were sent, the first is applied and the second is
\* still queued.
C8_Witness ==
    /\ Len(sent) = 2 /\ sent[1] # sent[2]
    /\ applied = <<sent[1]>>
    /\ chan = <<sent[2]>>

\* C9 (its safety part): the loop has no terminal state: as long as the process
\* has not exited, the loop thread is at one of the positions of its iteration.
C9_LoopHasNoTerminalState ==
    main_pc # "exited" => loop_pc \in {"top", "recv", "sleep"}

\* C10: when try_recv finds the channel empty or disconnected, the command step
\* changes no simulation parameter and no grid cell and does not panic: the
\* loop goes to its sleep, and from the sleep to the next iteration.
C10_NoCommandThisTick ==
    [][/\ (loop_pc = "recv" /\ loop_pc' # "recv" /\ chan = <<>>)
            => /\ msg' \in {<<"Err", "Empty">>, <<"Err", "Disconnected">>}
               /\ msg'[2] = "Disconnected" <=> main_pc = "returned"
               /\ UNCHANGED <<active, frame, ratio, board, sleep>>
               /\ loop_pc' = "sleep"
       /\ (loop_pc = "sleep" /\ loop_pc' # "sleep") => loop_pc' = "top"]_vars

\* The loop found the channel disconnected and went on to the next iteration.
C10_Witness ==
    /\ msg = <<"Err", "Disconnected">>
    /\ loop_pc = "top"
    /\ main_pc = "returned"

----------------------------------------------------------------------------
(* The effect of each command: claim C11 *)

\* The command a step of the loop consumes, <<>> when it consumes none.
Consumed == IF applied' # applied THEN <<applied'[Len(applied')]>> ELSE <<>>

\* C11: each consumed command changes exactly one component of the loop state
\* and leaves the rest unchanged: Pause flips only active; Redraw replaces only
\* the board, by a freshly seeded one; HigherRatio and LowerRatio change only
\* the ratio, by +0.05 and -0.05 whatever its value; Faster and Slower change
\* only sleep (and do change it); no command changes frame.
C11_OneComponentPerCommand ==
    [][Consumed # <<>> =>
          /\ frame' = frame
          /\ Consumed = <<"Pause">> =>
                active' = ~active /\ UNCHANGED <<ratio, board, sleep>>
          /\ Consumed = <<"Redraw">> =>
                IsSeed(board') /\ UNCHANGED <<active, ratio, sleep>>
          /\ Consumed = <<"HigherRatio">> =>
                ratio' = ratio + RATIO_STEP /\ UNCHANGED <<active, board, sleep>>
          /\ Consumed = <<"LowerRatio">> =>
                ratio' = ratio - RATIO_STEP /\ UNCHANGED <<active, board, sleep>>
          /\ Consumed \in {<<"Faster">>, <<"Slower">>} =>
                sleep' # sleep /\ UNCHANGED <<active, ratio, board>>]_vars

\* What the code keeps of C11: no command changes another component than its
\* own, and each changes its own as C11 says unless the loop thread panics on it.
C11_OneComponentUnlessPanics ==
    [][Consumed # <<>> =>
          /\ frame' = frame
          /\ Consumed = <<"Pause">> =>
                active' = ~active /\ UNCHANGED <<ratio, board, sleep>>
          /\ Consumed = <<"Redraw">> =>
                IsSeed(board') /\ UNCHANGED <<active, ratio, sleep>>
          /\ Consumed = <<"HigherRatio">> =>
                ratio' = ratio + RATIO_STEP /\ UNCHANGED <<active, board, sleep>>
          /\ Consumed = <<"LowerRatio">> =>
                ratio' = ratio - RATIO_STEP /\ UNCHANGED <<active, board, sleep>>
          /\ Consumed \in {<<"Faster">>, <<"Slower">>} =>
                /\ UNCHANGED <<active, ratio, board>>
                /\ loop_pc' # "panicked" => sleep' # sleep]_vars

----------------------------------------------------------------------------
(* The tick interval: claim C12 *)

\* The number of times command c occurs in a sequence of commands.
Count(seq, c) == Cardinality({k \in 1 .. Len(seq) : seq[k] = c})

\* A u64 written as a negative number is a wrapped one: v stands for 2^64 + v.
Wrapped(v) == v < 0

\* C12: from 700 ms on, every consumed Faster lowers the tick interval by
\* exactly 50 and every consumed Slower raises it by exactly 50, whatever the
\* current value and the number of commands (also a 15th Faster in a row): the
\* interval is 700 - 50 * (Faster consumed) + 50 * (Slower consumed), and the
\* loop keeps ticking with it.
C12_IntervalTracksCommands ==
    /\ sleep = INITIAL_SLEEP - SLEEP_STEP * Count(applied, "Faster")
                             + SLEEP_STEP * Count(applied, "Slower")
    /\ ~Wrapped(sleep)
    /\ loop_pc # "panicked"

\* What the code keeps of C12: the same, as long as no more Faster than
\* INITIAL_SLEEP / SLEEP_STEP = 14 (net of Slower) have been consumed.
C12_IntervalTracksCommandsAboveZero ==
    (\A n \in 0 .. Len(applied) :
        SLEEP_STEP * (Count(Prefix(applied, n), "Faster")
                        - Count(Prefix(applied, n), "Slower")) <= INITIAL_SLEEP)
        => C12_IntervalTracksCommands

----------------------------------------------------------------------------
(* The input thread: claim C13 *)

\* The key of a line: its characters other than white space.
LineKey(line) == SelectSeq(line, LAMBDA ch : ch \notin WhiteSpace)

\* The documented command of each key.
DocCommand(key) ==
    CASE key = <<"p">> -> "Pause"
      [] key = <<"r">> -> "Redraw"
      [] key = <<"m">> -> "HigherRatio"
      [] key = <<"l">> -> "LowerRatio"
      [] key = <<"z">> -> "Slower"
      [] key = <<"x">> -> "Faster"

DocKeys == {<<"p">>, <<"r">>, <<"m">>, <<"l">>, <<"z">>, <<"x">>}

\* A step in which the main thread reads a line that has an effect or differs
\* from the line read before.
ReadsLine == call' # call \/ sent' # sent \/ main_pc' # main_pc

\* C13: a line maps to at most one action: p, r, m, l, z, x send exactly one
\* command each (Pause, Redraw, HigherRatio, LowerRatio, Slower, Faster) and
\* change nothing else; any other line sends nothing and changes nothing; q
\* sends no command and ends the process, after which nothing is drawn, stepped
\* or applied any more, whatever is still queued.
C13_LineToCommand ==
    [][/\ (main_pc = "read" /\ ReadsLine) =>
             LET key == LineKey(call'[2])
             IN  /\ call'[1] = "read_line"
                 /\ UNCHANGED <<loop_vars, applied, screen, renders, steps>>
                 /\ key \in DocKeys =>
                       /\ sent' = Append(sent, DocCommand(key))
                       /\ loop_pc # "panicked" => chan' = Append(chan, DocCommand(key))
                       /\ main_pc' = "read"
                 /\ key = <<"q">> =>
                       /\ UNCHANGED <<sent, chan>>
                       /\ main_pc' = "returned"
                 /\ key \notin DocKeys \cup {<<"q">>} =>
                       UNCHANGED <<sent, chan, main_pc>>
       /\ main_pc = "returned" =>
             (main_pc' # main_pc => main_pc' = "exited") /\ UNCHANGED <<sent>>
       /\ main_pc = "exited" =>
             UNCHANGED <<loop_vars, chan, main_pc, sent, applied, screen,
                         renders, steps>>]_vars

\* The process has ended on a line q after two lines with commands were read,
\* with the command of the second still queued.
C13_Witness ==
    /\ main_pc = "exited"
    /\ call = <<"read_line", <<"q", "\n">>>>
    /\ sent = <<"Pause", "Slower">>
    /\ chan = <<"Slower">>

----------------------------------------------------------------------------
(* The ages: claim C16 *)

\* C16: in every reachable state the age of an Alive cell is the number of
\* steps in a row it has survived since it was born or seeded; one step gives a
\* surviving cell its age plus one and a newly born cell the age 0; and this for
\* any number of generations in a row, with no overflow, wrap-around or failure
\* (a 2x2 block after 256 generations and more).
C16_AgeCountsSurvivedSteps ==
    /\ [](/\ loop_pc # "panicked"
          /\ \A i \in Indices : IsAlive(board[i]) => board[i][2] = survived[i])
    /\ [][steps' # steps =>
             \A i \in Indices :
                IsAlive(board'[i]) =>
                   board'[i] = IF IsAlive(board[i]) THEN Alive(board[i][2] + 1)
                               ELSE Alive(0)]_vars

\* What the code keeps of C16: the same for every cell that has survived fewer
\* than 256 steps in a row.
C16_AgeCountsBelowOverflow ==
    /\ loop_pc = "panicked" =>
          \E i \in Indices : IsAlive(board[i]) /\ survived[i] = U8_MODULUS - 1
    /\ \A i \in Indices :
          (IsAlive(board[i]) /\ survived[i] < U8_MODULUS) => board[i][2] = survived[i]

----------------------------------------------------------------------------
(* The running iteration: claim C14 *)

\* The `if active` block of an iteration that begins running is left.
RunningIteration == loop_pc = "top" /\ active /\ loop_pc' # "top"

\* C14: a running iteration increments frame by one, draws the held grid as it
\* is before the step together with the new frame, and then replaces the held
\* grid by its step; the loop starts running with frame 0, the first frame
\* drawn is the initial seed with frame 1, and in every reachable state frame
\* is the number of frames drawn and the number of steps applied.
C14_FrameRenderStep ==
    /\ [](/\ frame = renders
          /\ frame = steps
          /\ frame = 0 => active /\ applied = <<>> /\ screen = <<>>)
    /\ [][RunningIteration =>
             /\ frame' = frame + 1
             /\ renders' = renders + 1
             /\ screen' = <<frame + 1, ratio, sleep, board>>
             /\ frame = 0 => IsSeed(screen'[4])
             /\ steps' = steps + 1
             /\ LiveSet(board') = LifeStep(LiveSet(board))]_vars

\* What the code keeps of C14: the same, except that an iteration whose step
\* panics has incremented frame and drawn the grid, and applied no step.
C14_FrameRenderStepUnlessPanics ==
    /\ [](/\ frame = renders
          /\ loop_pc # "panicked" => frame = steps
          /\ frame = 0 => active /\ applied = <<>> /\ screen = <<>>)
    /\ [][RunningIteration =>
             /\ frame' = frame + 1
             /\ renders' = renders + 1
             /\ screen' = <<frame + 1, ratio, sleep, board>>
             /\ frame = 0 => IsSeed(screen'[4])
             /\ loop_pc' # "panicked" =>
                   /\ steps' = steps + 1
                   /\ LiveSet(board') = LifeStep(LiveSet(board))]_vars

----------------------------------------------------------------------------
(* Each command is consumed once: claim C15 *)

FrameBoundReached == loop_pc = "top" /\ active /\ frame >= MaxFrame

----------------------------------------------------------------------------
(* The owner of the grid and the parameters: claim C17 *)

\* The grid and the simulation parameters.
Simulation == <<active, frame, ratio, board, sleep>>

\* A step of the main thread: it sends a command or moves on, to its return
\* or to the exit of the process.
MainStep == sent' # sent \/ main_pc' # main_pc

\* C17: the grid and the simulation parameters are changed only by steps of
\* the loop thread.  A step of the main thread leaves them, and everything
\* else the loop holds or has done, unchanged, and a send only appends the
\* command to the channel; so a sent command has no effect until the loop
\* consumes it: active, ratio and sleep change only in a step that applies a
\* command, frame and the grid only in such a step or in one that draws.
C17_OnlyLoopChangesSimulation ==
    [][/\ MainStep =>
             /\ UNCHANGED <<Simulation, msg, loop_pc>>
             /\ UNCHANGED <<applied, screen, renders, steps>>
             /\ sent' # sent =>
                   /\ Len(sent') = Len(sent) + 1
                   /\ loop_pc # "panicked" => chan' = Append(chan, sent'[Len(sent')])
             /\ sent' = sent => chan' = chan
       /\ Simulation' # Simulation =>
             /\ ~MainStep
             /\ loop_pc' # loop_pc
             /\ applied' # applied \/ renders' # renders
       /\ <<active, ratio, sleep>>' # <<active, ratio, sleep>> =>
             applied' # applied]_vars

\* A command was sent while the loop was running and the loop went on to draw
\* a frame: the command is queued and has had no effect.
C17_Witness ==
    /\ sent = <<"Pause">> /\ chan = <<"Pause">> /\ applied = <<>>
    /\ active /\ renders = 1 /\ loop_pc = "recv"

----------------------------------------------------------------------------
(* The poll comes after the frame: claim C18 *)

\* C18: within an iteration the poll comes after the frame is drawn and the
\* step applied, so a command has its effect from the next iteration on: an
\* iteration that began running has drawn and stepped when it polls (so also
\* the one that consumes a Pause), and the frame drawn next after a Redraw was
\* consumed shows exactly the freshly seeded grid, every live cell Alive(0),
\* with no step applied to it first.
C18_PollAfterFrame ==
    /\ []((loop_pc \in {"recv", "sleep"} /\ iter.active)
             => /\ renders = iter.renders + 1
                /\ steps = iter.steps + 1
                /\ frame = iter.frame + 1)
    /\ [][/\ (loop_pc = "recv" /\ applied' # applied)
                => UNCHANGED <<frame, renders, steps, screen>>
          /\ (msg = <<"Ok", "Redraw">> /\ renders' # renders)
                => /\ screen'[4] = board
                   /\ IsSeed(screen'[4])]_vars

\* A Redraw was consumed in a running iteration and the next iteration has
\* drawn the new seed, which has live cells, and stepped it.
C18_Witness ==
    /\ msg = <<"Ok", "Redraw">> /\ active /\ loop_pc = "recv"
    /\ frame >= 2
    /\ IsSeed(screen[4]) /\ LiveSet(screen[4]) # {}
    /\ LiveSet(board) # {} /\ ~IsSeed(board)

----------------------------------------------------------------------------
(* The neighbour relation: claim C19 *)

\* The step of each direction in rows and columns: <<rows down, columns right>>.
RowColStep(d) ==
    CASE d = "nw" -> <<0 - 1, 0 - 1>>
      [] d = "n"  -> <<0 - 1, 0>>
      [] d = "ne" -> <<0 - 1, 1>>
      [] d = "w"  -> <<0, 0 - 1>>
      [] d = "e"  -> <<0, 1>>
      [] d = "sw" -> <<1, 0 - 1>>
      [] d = "s"  -> <<1, 0>>
      [] d = "se" -> <<1, 1>>

Opposite(d) ==
    CASE d = "nw" -> "se"
      [] d = "n"  -> "s"
      [] d = "ne" -> "sw"
      [] d = "w"  -> "e"
      [] d = "e"  -> "w"
      [] d = "sw" -> "ne"
      [] d = "s"  -> "n"
      [] d = "se" -> "nw"

\* The cells of the grid at the step of direction d from cell i: one or none.
CellsAt(d, i) ==
    {j \in Indices : /\ Row(j) = Row(i) + RowColStep(d)[1]
                     /\ Col(j) = Col(i) + RowColStep(d)[2]}

\* The indices the 8 direction functions return as Some for cell i.
SomeNeighbours(i) ==
    {j \in Indices : \E d \in Directions : Direction(d, i) = Ok(Some(j))}

\* C19: for every index i the indices returned as Some by the 8 directions are
\* exactly the cells j # i whose row and column differ from those of i by at
\* most one, each returned by exactly one direction (3 at a corner, 5 on an
\* edge, 8 inside, never across a row end), and j is the neighbour of i in a
\* direction exactly when i is the neighbour of j in the opposite direction.
C19_NeighbourRelation ==
    (ret # <<>> /\ call[1] \in Directions)
        => LET d == call[1]
               i == call[2]
           IN  /\ ~ret[1].panic
               /\ IF CellsAt(d, i) = {} THEN ret[1].val = None
                  ELSE ret[1].val # None /\ ret[1].val[1] \in CellsAt(d, i)
               /\ SomeNeighbours(i) = Window(i) \ {i}
               /\ \A j \in SomeNeighbours(i) :
                     Cardinality({e \in Directions : Direction(e, i) = Ok(Some(j))}) = 1
               /\ Cardinality(SomeNeighbours(i)) =
                     IF Row(i) \in {0, WIDTH - 1} /\ Col(i) \in {0, WIDTH - 1} THEN 3
                     ELSE IF Row(i) \in {0, WIDTH - 1} \/ Col(i) \in {0, WIDTH - 1} THEN 5
                     ELSE 8
               /\ \A j \in Indices :
                     (ret[1].val = Some(j)) <=> (Direction(Opposite(d), j) = Ok(Some(i)))

\* The east neighbour of a cell inside the grid was resolved.
C19_Witness ==
    /\ ret # <<>> /\ call[1] = "e"
    /\ Cardinality(Window(call[2])) = 9
    /\ ret[1] = Ok(Some(call[2] + 1))

====
